---- MODULE Spec2Model ----
(***************************************************************************)
(* Model of agentic3d/agents.py: the AgentBuilder factory.                 *)
(*                                                                         *)
(* The state is the Python heap as far as AgentBuilder touches it: the     *)
(* agent objects the external runtime hands back (by identity), the        *)
(* builder's two attributes all_agents / all_agents_dict, the position of  *)
(* __init__, standard output and the value last returned to the caller.    *)
(* Message contents are sequences of one-character strings so that         *)
(* rstrip / endswith / `in` are computed.                                  *)
(***************************************************************************)
EXTENDS Integers, Sequences, FiniteSets, TLC

VARIABLES
    args,             \* the six constructor arguments of the instance under construction
    pc,               \* position of __init__ / state of the instance
    agents,           \* heap: object id -> agent object built by the runtime
    stack,            \* elements of the list display of line 45 evaluated so far
    attrs,            \* attributes of self that have been assigned
    all_agents,       \* self.all_agents (list of object ids)
    all_agents_dict,  \* self.all_agents_dict (key -> object id)
    calls,            \* builder methods invoked on this instance, in order
    pending,          \* exception raised by the runtime, travelling up the frames
    exc,              \* exception the caller of AgentBuilder(...) observed
    stdout,           \* lines written to standard output
    called,           \* the method the caller invoked last
    ret,              \* value returned by the last method call
    term,             \* last application of an agent's is_termination_msg
    prev,             \* registry of the previously constructed instance
    nprints,          \* number of print_agents calls so far
    nmut              \* number of caller mutations so far

vars == <<args, pc, agents, stack, attrs, all_agents, all_agents_dict, calls,
          pending, exc, stdout, called, ret, term, prev, nprints, nmut>>

----
\* Bounds of the model.

MaxPrints == 2
MaxMutations == 1
MaxPad == 1

\* System-message strings handed to the constructor (opaque to this code).
SystemMessages == {"sm_a", "sm_b"}

\* Failures the external runtime may raise from an agent constructor.
RuntimeErrors == {"ValueError", "RuntimeError"}

ArgNames == {"generator_system_message", "feedback_system_message",
             "prompt_improver_system_message", "commander_system_message",
             "coder_system_message", "critic_system_message"}

Args == [ArgNames -> SystemMessages]

----
\* Python values returned by the termination lambdas: bool, str or None.

PyBool(b) == [t |-> "bool", b |-> b, s |-> <<>>]
PyStr(s) == [t |-> "str", b |-> FALSE, s |-> s]
PyNone == [t |-> "NoneType", b |-> FALSE, s |-> <<>>]

\* bool(v): the truth value the runtime takes of a predicate's result.
Truthy(v) ==
    CASE v.t = "bool" -> v.b
      [] v.t = "str" -> Len(v.s) > 0
      [] OTHER -> FALSE

\* str.rstrip() with no argument strips trailing whitespace.
Whitespace == {" ", "\t", "\n", "\r"}

RECURSIVE rstrip(_)
rstrip(s) ==
    IF Len(s) > 0 /\ s[Len(s)] \in Whitespace
    THEN rstrip(SubSeq(s, 1, Len(s) - 1))
    ELSE s

\* s.endswith(suffix)
endswith(s, suffix) ==
    /\ Len(s) >= Len(suffix)
    /\ SubSeq(s, Len(s) - Len(suffix) + 1, Len(s)) = suffix

\* sub in s, for strings
contains(s, sub) ==
    \E i \in 0..(Len(s) - Len(sub)) : SubSeq(s, i + 1, i + Len(sub)) = sub

TERMINATE == <<"T", "E", "R", "M", "I", "N", "A", "T", "E">>
TERMINATE_MATCH == TERMINATE \o <<"_", "M", "A", "T", "C", "H">>

\* A message is a dict; has = the key "content" is present.
Msg(has, content) == [has |-> has, content |-> content]

\* x.get("content", "")
GetContentDefaultEmpty(x) == IF x.has THEN x.content ELSE PyStr(<<>>)

\* msg.get("content")
GetContent(msg) == IF msg.has THEN msg.content ELSE PyNone

\* Variant: endswith on the untrimmed content.
designer_is_termination_msg_untrimmed(x) ==
    IF ~Truthy(GetContentDefaultEmpty(x))
    THEN GetContentDefaultEmpty(x)
    ELSE PyBool(endswith(GetContentDefaultEmpty(x).s, TERMINATE))

\* `a and b` returns a when a is falsy, else b.
designer_is_termination_msg(x) ==
    IF ~Truthy(GetContentDefaultEmpty(x))
    THEN GetContentDefaultEmpty(x)
    ELSE PyBool(endswith(rstrip(GetContentDefaultEmpty(x).s), TERMINATE))

\* `a and b` with a = (msg.get("content") is not None), a bool.
feedback_is_termination_msg(msg) ==
    IF GetContent(msg).t = "NoneType"
    THEN PyBool(FALSE)
    ELSE PyBool(contains(msg.content.s, TERMINATE_MATCH))

\* Variant: the prompt improver looks for the designer's sentinel.
prompt_improver_is_termination_msg_plain(msg) ==
    IF GetContent(msg).t = "NoneType"
    THEN PyBool(FALSE)
    ELSE PyBool(contains(msg.content.s, TERMINATE))

prompt_improver_is_termination_msg(msg) ==
    IF GetContent(msg).t = "NoneType"
    THEN PyBool(FALSE)
    ELSE PyBool(contains(msg.content.s, TERMINATE_MATCH))

\* Default of the runtime when is_termination_msg is not passed: not modelled
\* by this repository; the generator defers to it.
Unset == "<unset>"

\* The predicate object stored in an agent, applied to a message.
ApplyTermination(pred, msg) ==
    CASE pred = "designer_lambda" -> designer_is_termination_msg(msg)
      [] pred = "feedback_lambda" -> feedback_is_termination_msg(msg)
      [] pred = "prompt_improver_lambda" -> prompt_improver_is_termination_msg(msg)

----
\* Messages the runtime may hand to a termination predicate.

LooksGreat == <<"L", "o", "o", "k", "s", " ", "g", "r", "e", "a", "t", ".">>

Prefixes == {<<>>, LooksGreat \o <<" ">>}

Cores == {<<>>, TERMINATE, TERMINATE_MATCH,
          <<"T", "E", "R", "M", "I", "N", "A", "T">>,
          TERMINATE \o <<"_", "M", "A", "T", "C">>}

Tails == {<<>>, <<".">>}

PadChars == {" ", "\n"}

Pads == {[i \in 1..n |-> ch] : n \in 0..MaxPad, ch \in PadChars}

Contents == {p \o c \o q \o w : p \in Prefixes, c \in Cores, q \in Tails, w \in Pads}

Messages == {Msg(TRUE, PyStr(c)) : c \in Contents}
            \cup {Msg(TRUE, PyNone), Msg(FALSE, PyNone)}

----
\* The agent objects: the keyword arguments each builder passes to the runtime.

LLM_CONFIG == "LLM_CONFIG"

NoLimit == [set |-> FALSE, val |-> 0]
Limit(n) == [set |-> TRUE, val |-> n]

build_designer_agent_kwargs ==
    [cls |-> "UserProxyAgent",
     name |-> "designer",
     human_input_mode |-> "NEVER",
     llm_config |-> LLM_CONFIG,
     code_execution_config |-> "False",
     is_termination_msg |-> "designer_lambda",
     max_consecutive_auto_reply |-> Limit(1),
     system_message |-> Unset]

build_openscad_generator_agent_kwargs(system_message) ==
    [cls |-> "ConversableAgent",
     name |-> "openscad_generator",
     human_input_mode |-> Unset,
     llm_config |-> LLM_CONFIG,
     code_execution_config |-> Unset,
     is_termination_msg |-> Unset,
     max_consecutive_auto_reply |-> NoLimit,
     system_message |-> system_message]

\* Variant: human_input_mode left to the runtime default.
build_feedback_agent_kwargs_default_input(system_message) ==
    [cls |-> "MultimodalConversableAgent",
     name |-> "feedback",
     human_input_mode |-> Unset,
     llm_config |-> LLM_CONFIG,
     code_execution_config |-> Unset,
     is_termination_msg |-> "feedback_lambda",
     max_consecutive_auto_reply |-> NoLimit,
     system_message |-> system_message]

build_feedback_agent_kwargs(system_message) ==
    [cls |-> "MultimodalConversableAgent",
     name |-> "feedback",
     human_input_mode |-> "NEVER",
     llm_config |-> LLM_CONFIG,
     code_execution_config |-> Unset,
     is_termination_msg |-> "feedback_lambda",
     max_consecutive_auto_reply |-> NoLimit,
     system_message |-> system_message]

build_prompt_improver_agent_kwargs(system_message) ==
    [cls |-> "ConversableAgent",
     name |-> "prompt_improver",
     human_input_mode |-> "NEVER",
     llm_config |-> LLM_CONFIG,
     code_execution_config |-> Unset,
     is_termination_msg |-> "prompt_improver_lambda",
     max_consecutive_auto_reply |-> Limit(1),
     system_message |-> system_message]

----
\* State of one AgentBuilder instance.

NoTerm == [agent |-> -1, msg |-> Msg(FALSE, PyNone), result |-> PyNone]

NoPrev == [built |-> FALSE, args |-> <<>>, configs |-> <<>>, keys |-> {},
           stdout |-> <<>>, nprints |-> 0]

\* Python's 0-based seq[i]
At(seq, i) == seq[i + 1]

Init ==
    /\ args \in Args
    /\ pc = "L46"
    /\ agents = <<>>
    /\ stack = <<>>
    /\ attrs = {}
    /\ all_agents = <<>>
    /\ all_agents_dict = <<>>
    /\ calls = <<>>
    /\ pending = "none"
    /\ exc = "none"
    /\ stdout = <<>>
    /\ called = "none"
    /\ ret = "unset"
    /\ term = NoTerm
    /\ prev = NoPrev
    /\ nprints = 0
    /\ nmut = 0

\* A builder method: one call of the runtime's agent constructor, which either
\* returns a new object (pushed as the next element of the list display) or
\* raises; the builder has no try/except.
Build(method, kwargs, here, next) ==
    /\ pc = here
    /\ calls' = Append(calls, method)
    /\ \/ /\ agents' = Append(agents, kwargs)
          /\ stack' = Append(stack, Len(agents) + 1)
          /\ pc' = next
          /\ UNCHANGED pending
       \/ /\ \E e \in RuntimeErrors : pending' = e
          /\ pc' = "raise"
          /\ UNCHANGED <<agents, stack>>
    /\ UNCHANGED <<args, attrs, all_agents, all_agents_dict, exc, stdout, called,
                   ret, term, prev, nprints, nmut>>

build_designer_agent ==
    Build("build_designer_agent", build_designer_agent_kwargs, "L46", "L47")

build_openscad_generator_agent ==
    Build("build_openscad_generator_agent",
          build_openscad_generator_agent_kwargs(args["generator_system_message"]),
          "L47", "L48")

\* Variant: the feedback agent is given the generator's system message.
build_feedback_agent_generator_message ==
    Build("build_feedback_agent",
          build_feedback_agent_kwargs(args["generator_system_message"]),
          "L48", "L49")

build_feedback_agent ==
    Build("build_feedback_agent",
          build_feedback_agent_kwargs(args["feedback_system_message"]),
          "L48", "L49")

\* Variant: the prompt improver is given the commander's system message.
build_prompt_improver_agent_commander_message ==
    Build("build_prompt_improver_agent",
          build_prompt_improver_agent_kwargs(args["commander_system_message"]),
          "L49", "L45")

build_prompt_improver_agent ==
    Build("build_prompt_improver_agent",
          build_prompt_improver_agent_kwargs(args["prompt_improver_system_message"]),
          "L49", "L45")

\* self.all_agents = [...]: the list is stored once all four elements exist.
store_all_agents ==
    /\ pc = "L45"
    /\ all_agents' = stack
    /\ attrs' = attrs \cup {"all_agents"}
    /\ stack' = <<>>
    /\ pc' = "L52"
    /\ UNCHANGED <<args, agents, all_agents_dict, calls, pending, exc, stdout,
                   called, ret, term, prev, nprints, nmut>>

\* Variant: the last two keys are bound to each other's position.
store_all_agents_dict_swapped ==
    /\ pc = "L52"
    /\ all_agents_dict' =
           [k \in {"user_designer_agent", "openscad_generator_agent",
                   "feedback_agent", "prompt_improver_agent"} |->
               CASE k = "user_designer_agent" -> At(all_agents, 0)
                 [] k = "openscad_generator_agent" -> At(all_agents, 1)
                 [] k = "feedback_agent" -> At(all_agents, 3)
                 [] k = "prompt_improver_agent" -> At(all_agents, 2)]
    /\ attrs' = attrs \cup {"all_agents_dict"}
    /\ pc' = "ready"
    /\ UNCHANGED <<args, agents, stack, all_agents, calls, pending, exc, stdout,
                   called, ret, term, prev, nprints, nmut>>

\* Variant: the dict display calls build_designer_agent() again for its first
\* value instead of reusing self.all_agents[0].
store_all_agents_dict_rebuilding ==
    /\ pc = "L52"
    /\ calls' = Append(calls, "build_designer_agent")
    /\ agents' = Append(agents, build_designer_agent_kwargs)
    /\ all_agents_dict' =
           [k \in {"user_designer_agent", "openscad_generator_agent",
                   "feedback_agent", "prompt_improver_agent"} |->
               CASE k = "user_designer_agent" -> Len(agents) + 1
                 [] k = "openscad_generator_agent" -> At(all_agents, 1)
                 [] k = "feedback_agent" -> At(all_agents, 2)
                 [] k = "prompt_improver_agent" -> At(all_agents, 3)]
    /\ attrs' = attrs \cup {"all_agents_dict"}
    /\ pc' = "ready"
    /\ UNCHANGED <<args, stack, all_agents, pending, exc, stdout,
                   called, ret, term, prev, nprints, nmut>>

\* self.all_agents_dict = {...}; __init__ returns and the caller gets the instance.
store_all_agents_dict ==
    /\ pc = "L52"
    /\ all_agents_dict' =
           [k \in {"user_designer_agent", "openscad_generator_agent",
                   "feedback_agent", "prompt_improver_agent"} |->
               CASE k = "user_designer_agent" -> At(all_agents, 0)
                 [] k = "openscad_generator_agent" -> At(all_agents, 1)
                 [] k = "feedback_agent" -> At(all_agents, 2)
                 [] k = "prompt_improver_agent" -> At(all_agents, 3)]
    /\ attrs' = attrs \cup {"all_agents_dict"}
    /\ pc' = "ready"
    /\ UNCHANGED <<args, agents, stack, all_agents, calls, pending, exc, stdout,
                   called, ret, term, prev, nprints, nmut>>

\* Variant: __init__ catches the failure and raises an error of its own.
propagate_translated ==
    /\ pc = "raise"
    /\ exc' = "AgentBuilderError"
    /\ pc' = "failed"
    /\ stack' = <<>>
    /\ UNCHANGED <<args, agents, attrs, all_agents, all_agents_dict, calls,
                   pending, stdout, called, ret, term, prev, nprints, nmut>>

\* An exception leaves the builder and __init__ (neither catches anything) and
\* reaches the caller of AgentBuilder(...); the instance is never bound.
propagate ==
    /\ pc = "raise"
    /\ exc' = pending
    /\ pc' = "failed"
    /\ stack' = <<>>
    /\ UNCHANGED <<args, agents, attrs, all_agents, all_agents_dict, calls,
                   pending, stdout, called, ret, term, prev, nprints, nmut>>

get_all_agents ==
    /\ pc = "ready"
    /\ called' = "get_all_agents"
    /\ ret' = "self.all_agents"
    /\ UNCHANGED <<args, pc, agents, stack, attrs, all_agents, all_agents_dict,
                   calls, pending, exc, stdout, term, prev, nprints, nmut>>

get_all_agents_dict ==
    /\ pc = "ready"
    /\ called' = "get_all_agents_dict"
    /\ ret' = "self.all_agents_dict"
    /\ UNCHANGED <<args, pc, agents, stack, attrs, all_agents, all_agents_dict,
                   calls, pending, exc, stdout, term, prev, nprints, nmut>>

\* Variant: the names are written in reverse list order.
print_lines_reversed ==
    [i \in 1..Len(all_agents) |-> agents[all_agents[Len(all_agents) + 1 - i]].name]

\* for agent in self.all_agents: print(agent.name)
print_lines == [i \in 1..Len(all_agents) |-> agents[all_agents[i]].name]

print_agents ==
    /\ pc = "ready"
    /\ nprints < MaxPrints
    /\ stdout' = stdout \o print_lines
    /\ called' = "print_agents"
    /\ ret' = "None"
    /\ nprints' = nprints + 1
    /\ UNCHANGED <<args, pc, agents, stack, attrs, all_agents, all_agents_dict,
                   calls, pending, exc, term, prev, nmut>>

\* The runtime applies the termination predicate stored in the agent at
\* position i to a message.
is_termination_msg(i, m) ==
    /\ pc = "ready"
    /\ agents[At(all_agents, i)].is_termination_msg # Unset
    /\ term' = [agent |-> i, msg |-> m,
                result |-> ApplyTermination(
                               agents[At(all_agents, i)].is_termination_msg, m)]
    /\ UNCHANGED <<args, pc, agents, stack, attrs, all_agents, all_agents_dict,
                   calls, pending, exc, stdout, called, ret, prev, nprints, nmut>>

\* The caller uses the list that get_all_agents() returned: it is the
\* builder's own list object, so list operations act on self.all_agents.
caller_list_pop ==
    /\ pc = "ready"
    /\ ret = "self.all_agents"
    /\ nmut < MaxMutations
    /\ Len(all_agents) > 0
    /\ all_agents' = SubSeq(all_agents, 1, Len(all_agents) - 1)
    /\ nmut' = nmut + 1
    /\ UNCHANGED <<args, pc, agents, stack, attrs, all_agents_dict, calls,
                   pending, exc, stdout, called, ret, term, prev, nprints>>

caller_list_append(a) ==
    /\ pc = "ready"
    /\ ret = "self.all_agents"
    /\ nmut < MaxMutations
    /\ a \in DOMAIN agents
    /\ all_agents' = Append(all_agents, a)
    /\ nmut' = nmut + 1
    /\ UNCHANGED <<args, pc, agents, stack, attrs, all_agents_dict, calls,
                   pending, exc, stdout, called, ret, term, prev, nprints>>

\* The caller uses the dict that get_all_agents_dict() returned, likewise the
\* builder's own dict object.
caller_dict_setitem(k, a) ==
    /\ pc = "ready"
    /\ ret = "self.all_agents_dict"
    /\ nmut < MaxMutations
    /\ a \in DOMAIN agents
    /\ all_agents_dict' =
           [x \in DOMAIN all_agents_dict \cup {k} |->
               IF x = k THEN a ELSE all_agents_dict[x]]
    /\ nmut' = nmut + 1
    /\ UNCHANGED <<args, pc, agents, stack, attrs, all_agents, calls,
                   pending, exc, stdout, called, ret, term, prev, nprints>>

caller_dict_del(k) ==
    /\ pc = "ready"
    /\ ret = "self.all_agents_dict"
    /\ nmut < MaxMutations
    /\ k \in DOMAIN all_agents_dict
    /\ all_agents_dict' = [x \in DOMAIN all_agents_dict \ {k} |-> all_agents_dict[x]]
    /\ nmut' = nmut + 1
    /\ UNCHANGED <<args, pc, agents, stack, attrs, all_agents, calls,
                   pending, exc, stdout, called, ret, term, prev, nprints>>

\* The registry a constructed instance exposes: the agents' configurations in
\* list order, the dict's keys, and what the instance has printed.
Registry ==
    [built |-> TRUE,
     args |-> args,
     configs |-> [i \in 1..Len(all_agents) |-> agents[all_agents[i]]],
     keys |-> DOMAIN all_agents_dict,
     stdout |-> stdout,
     nprints |-> nprints]

\* The caller constructs a second AgentBuilder with other arguments; __init__
\* starts over on a fresh instance and the runtime hands out fresh objects.
construct_another ==
    /\ pc = "ready"
    /\ ~prev.built
    /\ prev' = Registry
    /\ args' \in Args
    /\ pc' = "L46"
    /\ stack' = <<>>
    /\ attrs' = {}
    /\ all_agents' = <<>>
    /\ all_agents_dict' = <<>>
    /\ calls' = <<>>
    /\ called' = "none"
    /\ ret' = "unset"
    /\ nprints' = 0
    /\ UNCHANGED <<agents, pending, exc, stdout, term, nmut>>

Construct ==
    \/ build_designer_agent
    \/ build_openscad_generator_agent
    \/ build_feedback_agent
    \/ build_prompt_improver_agent
    \/ store_all_agents
    \/ store_all_agents_dict
    \/ propagate

Next ==
    \/ Construct
    \/ get_all_agents
    \/ get_all_agents_dict
    \/ print_agents

Spec == Init /\ [][Next]_vars

\* The runtime evaluating termination predicates of a constructed registry.
NextPred ==
    \/ Construct
    \/ \E i \in 0..3, m \in Messages : is_termination_msg(i, m)

SpecPred == Init /\ [][NextPred]_vars

\* A caller that also operates on the returned containers.
NextCaller ==
    \/ Next
    \/ caller_list_pop
    \/ \E a \in 1..4 : caller_list_append(a)
    \/ \E k \in {"user_designer_agent", "extra"}, a \in 1..4 : caller_dict_setitem(k, a)
    \/ \E k \in {"feedback_agent"} : caller_dict_del(k)

SpecCaller == Init /\ [][NextCaller]_vars

\* Two constructions, one after the other.
NextPair ==
    \/ Construct
    \/ print_agents
    \/ construct_another

SpecPair == Init /\ [][NextPair]_vars

----
\* Properties.

Keys == {"user_designer_agent", "openscad_generator_agent", "feedback_agent",
         "prompt_improver_agent"}

BuilderOrder == <<"build_designer_agent", "build_openscad_generator_agent",
                  "build_feedback_agent", "build_prompt_improver_agent">>

Names == <<"designer", "openscad_generator", "feedback", "prompt_improver">>

IsPrefix(s, t) == Len(s) <= Len(t) /\ s = SubSeq(t, 1, Len(s))

\* The object a returned reference denotes.
Returned ==
    IF ret = "self.all_agents" THEN all_agents ELSE all_agents_dict

\* C1: once construction has completed, get_all_agents() returns a sequence of
\* exactly four distinct agent objects, get_all_agents_dict() returns a mapping
\* with exactly the four fixed keys, and the keys map, in order, to the very
\* objects (same identity) at positions 0..3 of the sequence.
C1_FourAgentsSameIdentity ==
    /\ pc = "ready" =>
          /\ attrs = {"all_agents", "all_agents_dict"}
          /\ Len(all_agents) = 4
          /\ \A i \in 1..4 : all_agents[i] \in DOMAIN agents
          /\ \A i, j \in 1..4 : all_agents[i] = all_agents[j] => i = j
          /\ DOMAIN all_agents_dict = Keys
          /\ all_agents_dict["user_designer_agent"] = At(all_agents, 0)
          /\ all_agents_dict["openscad_generator_agent"] = At(all_agents, 1)
          /\ all_agents_dict["feedback_agent"] = At(all_agents, 2)
          /\ all_agents_dict["prompt_improver_agent"] = At(all_agents, 3)
    /\ called = "get_all_agents" =>
          /\ ret = "self.all_agents"
          /\ Len(Returned) = 4
    /\ called = "get_all_agents_dict" =>
          /\ ret = "self.all_agents_dict"
          /\ DOMAIN Returned = Keys
          /\ \A i \in 0..3 : \E k \in Keys : Returned[k] = At(all_agents, i)

C1_Witness ==
    /\ pc = "ready"
    /\ called = "get_all_agents_dict"
    /\ Returned["prompt_improver_agent"] = At(all_agents, 3)
    /\ args["generator_system_message"] # args["feedback_system_message"]

\* C2: in every state after initialization, whatever the caller does with the
\* values the three methods returned, both views hold exactly the four agents
\* that were constructed, unchanged.
C2_ViewsNeverChange ==
    pc = "ready" =>
        /\ Len(all_agents) = 4
        /\ DOMAIN all_agents_dict = Keys
        /\ \A i \in 1..4 : all_agents[i] = i
        /\ all_agents_dict["user_designer_agent"] = At(all_agents, 0)
        /\ all_agents_dict["openscad_generator_agent"] = At(all_agents, 1)
        /\ all_agents_dict["feedback_agent"] = At(all_agents, 2)
        /\ all_agents_dict["prompt_improver_agent"] = At(all_agents, 3)

\* The content is a string that, without its trailing whitespace, ends with
\* TERMINATE: some position k holds the sentinel's last character and only
\* whitespace follows it.
EndsWithSentinelAfterTrim(m) ==
    /\ m.has
    /\ m.content.t = "str"
    /\ \E k \in 1..Len(m.content.s) :
          /\ k >= Len(TERMINATE)
          /\ \A j \in 1..Len(TERMINATE) :
                m.content.s[k - Len(TERMINATE) + j] = TERMINATE[j]
          /\ \A j \in (k + 1)..Len(m.content.s) : m.content.s[j] \in Whitespace

HasMatchSentinel(m) ==
    /\ m.has
    /\ m.content.t = "str"
    /\ \E k \in 1..Len(m.content.s) :
          /\ k + Len(TERMINATE_MATCH) - 1 <= Len(m.content.s)
          /\ \A j \in 1..Len(TERMINATE_MATCH) :
                m.content.s[k + j - 1] = TERMINATE_MATCH[j]

\* C4: the feedback agent's and the prompt-improver agent's termination
\* predicates agree on every message: each returns True when the content
\* contains "TERMINATE_MATCH" anywhere, and False when the key is absent, the
\* content is None, or the substring does not occur (plain "TERMINATE" at the
\* end does not trigger them).
C4_MatchTermination ==
    term.agent \in {2, 3} =>
        /\ agents[At(all_agents, 2)].name = "feedback"
        /\ agents[At(all_agents, 3)].name = "prompt_improver"
        /\ term.result = PyBool(HasMatchSentinel(term.msg))
        /\ ApplyTermination(agents[At(all_agents, 2)].is_termination_msg, term.msg)
              = ApplyTermination(agents[At(all_agents, 3)].is_termination_msg, term.msg)
        /\ (EndsWithSentinelAfterTrim(term.msg) /\ ~HasMatchSentinel(term.msg))
              => term.result = PyBool(FALSE)

C4_Witness ==
    /\ term.agent = 3
    /\ term.msg = Msg(TRUE, PyStr(LooksGreat \o <<" ">> \o TERMINATE_MATCH \o <<".">>))
    /\ term.result = PyBool(TRUE)

\* C5: a call of print_agents() appends exactly four lines to standard output,
\* the names of the four agents in construction order, returns None, and
\* leaves both views as they were.
C5_PrintAgents ==
    [][nprints' = nprints + 1 =>
          /\ stdout' = stdout \o Names
          /\ stdout' = stdout \o [i \in 1..4 |-> agents[i].name]
          /\ ret' = "None"
          /\ all_agents' = all_agents
          /\ all_agents_dict' = all_agents_dict]_vars

C5_Witness ==
    /\ nprints = 2
    /\ stdout = Names \o Names
    /\ ret = "None"

\* C6: during construction every builder is invoked exactly once, in the order
\* designer, generator, feedback, prompt-improver; the mapping exists only
\* once all four agents exist; no builder is invoked after construction.
C6_BuildOrder ==
    /\ IsPrefix(calls, BuilderOrder)
    /\ "all_agents_dict" \in attrs => (Len(agents) = 4 /\ calls = BuilderOrder)
    /\ "all_agents" \in attrs => calls = BuilderOrder
    /\ pc = "ready" => calls = BuilderOrder
    /\ \A i \in 1..Len(agents) : agents[i].name = Names[i]

C6_Witness ==
    /\ pc = "ready"
    /\ calls = BuilderOrder
    /\ called = "print_agents"

\* C7: when the runtime raises in the k-th agent constructor, construction
\* fails with that very exception: the failing builder was invoked once, no
\* later builder is invoked, and neither view is ever assigned or returned.
C7_FailurePropagates ==
    /\ pending # "none" => pc \in {"raise", "failed"}
    /\ pc \in {"raise", "failed"} =>
          /\ pending \in RuntimeErrors
          /\ IsPrefix(calls, BuilderOrder)
          /\ Len(calls) = Len(agents) + 1
          /\ attrs = {}
          /\ ret = "unset"
    /\ pc = "failed" => exc = pending
    /\ exc # "none" => pc = "failed"

C7_Witness ==
    /\ pc = "failed"
    /\ exc = "ValueError"
    /\ calls = SubSeq(BuilderOrder, 1, 3)
    /\ Len(agents) = 2

\* C8: the feedback and prompt-improver agents are built with human input
\* mode NEVER; the prompt-improver is limited to one consecutive auto-reply;
\* the feedback agent gets no auto-reply limit, and the generator gets neither
\* a termination predicate nor a human-input mode.
C8_AgentFlags ==
    pc = "ready" =>
        /\ agents[At(all_agents, 2)].human_input_mode = "NEVER"
        /\ agents[At(all_agents, 3)].human_input_mode = "NEVER"
        /\ agents[At(all_agents, 3)].max_consecutive_auto_reply = Limit(1)
        /\ ~agents[At(all_agents, 2)].max_consecutive_auto_reply.set
        /\ agents[At(all_agents, 1)].is_termination_msg = Unset
        /\ agents[At(all_agents, 1)].human_input_mode = Unset

C8_Witness ==
    /\ pc = "ready"
    /\ agents[At(all_agents, 2)].name = "feedback"
    /\ agents[At(all_agents, 3)].name = "prompt_improver"
    /\ agents[At(all_agents, 1)].name = "openscad_generator"

\* C9: the agents at positions 1, 2, 3 carry exactly the generator, feedback
\* and prompt-improver system messages given to the constructor, and the
\* designer at position 0 gets no system message from the arguments.
C9_SystemMessages ==
    pc = "ready" =>
        /\ agents[At(all_agents, 1)].system_message = args["generator_system_message"]
        /\ agents[At(all_agents, 2)].system_message = args["feedback_system_message"]
        /\ agents[At(all_agents, 3)].system_message
              = args["prompt_improver_system_message"]
        /\ agents[At(all_agents, 0)].system_message = Unset

C9_Witness ==
    /\ pc = "ready"
    /\ args["generator_system_message"] = "sm_a"
    /\ args["feedback_system_message"] = "sm_b"
    /\ args["prompt_improver_system_message"] = "sm_a"
    /\ args["commander_system_message"] = "sm_b"
    /\ agents[At(all_agents, 2)].system_message = "sm_b"

UsedArgs == {"generator_system_message", "feedback_system_message",
             "prompt_improver_system_message"}

\* C10: two constructions that agree on the generator, feedback and
\* prompt-improver system messages yield the same agent configurations, the
\* same keys and the same print_agents() output, whatever the commander,
\* coder and critic system messages are.
C10_UnusedArgsHaveNoEffect ==
    (/\ prev.built
     /\ pc = "ready"
     /\ \A a \in UsedArgs : prev.args[a] = args[a]) =>
        /\ Registry.configs = prev.configs
        /\ Registry.keys = prev.keys
        /\ nprints = prev.nprints =>
              SubSeq(stdout, Len(prev.stdout) + 1, Len(stdout)) = prev.stdout

C10_Witness ==
    /\ prev.built
    /\ pc = "ready"
    /\ \A a \in UsedArgs : prev.args[a] = args[a]
    /\ \A a \in ArgNames \ UsedArgs : prev.args[a] # args[a]
    /\ nprints = 1
    /\ prev.nprints = 1
    /\ Len(stdout) = 8

====
